---- MODULE Spec2Model ----
(***************************************************************************)
(* Call orchestration of the sandboxed runtime: call_module, local_call    *)
(* and create_sc of src/execution/common.rs, with the wasm call stack they *)
(* build.  A frame is one running wasm instance with its own metering      *)
(* counter (the Budget Ledger of that execution context); a call record is *)
(* one dispatch of call_module / local_call / create_sc issued by a frame. *)
(* A dispatch that reaches exec suspends its frame until the callee        *)
(* returns or traps, then runs the rest of the handler.                    *)
(***************************************************************************)
EXTENDS Integers, Sequences, FiniteSets, TLC

VARIABLES gas_calibration, frames, calls, chain, last

vars == <<gas_calibration, frames, calls, chain, last>>

-----------------------------------------------------------------------------
(* Bounds of the exploration *)

\* largest budget a frame can start with
MaxGas == 2
\* largest number of frames on the call stack (top-level frame included)
MaxDepth == 2
\* largest consumption audited for one chain of calls: one more than any
\* budget a correct grant could cover
MaxSpent == MaxGas + 1

-----------------------------------------------------------------------------
(* Program constants.  TLC integers are 32 bits wide: the 64-bit extremes   *)
(* are represented by the 32-bit ones, which keeps their order and signs.   *)

\* u64::MAX, the budget of calibration mode
U64_MAX == 2147483647
\* i64::MAX, the largest raw_coins
I64_MAX == 2147483646
\* i64::MIN, the smallest raw_coins
I64_MIN == -I64_MAX - 1

Addresses == {"A1", "A2"}
NoAddr == "-"
Bytecodes == {"B1", "Bad"}
NoCode == "none"
Payloads == {"r1", "r2"}
RawCoins == {I64_MIN, -1, 0, I64_MAX}

\* The variants of ABIError
ABIErrors == {"Error", "RuntimeError", "CompileError", "InstantiationError", "SerdeError"}

\* (variant) a conversion that files a compile error under the runtime errors
M_ABIError_from_runtime(e) ==
    CASE e = "anyhow::Error"              -> "Error"
      [] e = "wasmer::RuntimeError"       -> "RuntimeError"
      [] e = "wasmer::CompileError"       -> "RuntimeError"
      [] e = "wasmer::InstantiationError" -> "InstantiationError"
      [] e = "serde_json::Error"          -> "SerdeError"

\* the #[from] conversions of ABIError: one variant per error type
ABIError_from(e) ==
    CASE e = "anyhow::Error"              -> "Error"
      [] e = "wasmer::RuntimeError"       -> "RuntimeError"
      [] e = "wasmer::CompileError"       -> "CompileError"
      [] e = "wasmer::InstantiationError" -> "InstantiationError"
      [] e = "serde_json::Error"          -> "SerdeError"

\* The bytecode the host stores under each address.
Stored == [a \in Addresses |-> IF a = "A1" THEN "B1" ELSE "Bad"]

\* The primitive that fails during one part of a dispatch ("none": all
\* succeed).  The first failure ends the dispatch, so one name is enough.
EntryFailures == {"none", "init_call", "get_remaining_points"}
ExitFailures == {"none", "set_remaining_points", "finish_call"}

NoResponse == [ret |-> "none", remaining_gas |-> -1]

NoFirst == [seen |-> FALSE, status |-> "none", pre |-> 0]

\* The record of one dispatch: its arguments, the collaborators' answers, the
\* locals of the handler, the primitives it has invoked so far (trace) and,
\* once returned, its outcome.
NewCall(op, address, arg, raw_coins, fail, pre) ==
    [op |-> op, address |-> address, arg |-> arg, raw_coins |-> raw_coins,
     fail |-> fail,
     coins |-> -1, bytecode |-> arg, remaining_gas |-> -1,
     trace |-> <<>>, response |-> NoResponse,
     host_arg |-> NoCode, host_value |-> NoAddr,
     status |-> "pending", raised |-> "none",
     returned |-> NoResponse, value |-> NoAddr,
     pre |-> pre, post |-> pre,
     consumed |-> 0, clean |-> TRUE, first |-> NoFirst]

NoCall == NewCall("none", NoAddr, NoCode, 0, "none", 0)

\* A wasm instance started by exec under the metering limit `limit`.
Frame(limit) == [points |-> limit]

\* The audit of the chain of calls the top-level frame has started: the
\* budget consumed by all the frames of the chain, as long as (clean) every
\* call_module / local_call of the chain has succeeded.
NoChain == [spent |-> 0, clean |-> TRUE]

\* The audit after the chain consumed `more`, or (ok = FALSE) a call failed.
Audit(ch, depth, ok, more) ==
    IF depth = 1 THEN NoChain
    ELSE IF ch.clean /\ ok THEN [ch EXCEPT !.spent = @ + more]
    ELSE [spent |-> 0, clean |-> FALSE]

-----------------------------------------------------------------------------
(* The collaborators: host interface, budget accessors, sandbox engine *)

\* Interface::init_call: resolve the address to its stored bytecode.
init_call(address, coins, fail) ==
    IF fail # "init_call"
    THEN [ok |-> TRUE, v |-> Stored[address]]
    ELSE [ok |-> FALSE, v |-> NoCode]

\* Interface::finish_call
finish_call(fail) == [ok |-> fail # "finish_call"]

\* Interface::create_module: the host answers with the identifier it chose
\* for the bytecode, or fails (id = NoAddr).
create_module(bytecode, id) == [ok |-> id # NoAddr, v |-> id]

\* env::get_remaining_points: read the metering counter of the caller.
get_remaining_points(points, fail) ==
    IF fail # "get_remaining_points"
    THEN [ok |-> TRUE, v |-> points]
    ELSE [ok |-> FALSE, v |-> -1]

\* env::set_remaining_points: overwrite the metering counter of the caller.
set_remaining_points(points, value, fail) ==
    IF fail # "set_remaining_points"
    THEN [ok |-> TRUE, points |-> value]
    ELSE [ok |-> FALSE, points |-> points]

\* wasmer Module::new: compilation is a function of the bytecode.
Module_new(bytecode) == [ok |-> bytecode # "Bad"]

-----------------------------------------------------------------------------
(* The handlers of common.rs *)

\* (variant) a wrapping cast, `raw_coins as u64`, in place of try_into
M_TryIntoU64_cast(x) ==
    [ok |-> TRUE, v |-> IF x < 0 THEN (U64_MAX + x) + 1 ELSE x]

\* (variant) a conversion that takes only strictly positive amounts
M_TryIntoU64_positive(x) ==
    IF x <= 0 THEN [ok |-> FALSE, v |-> -1] ELSE [ok |-> TRUE, v |-> x]

\* i64 -> u64 conversion of raw_coins
TryIntoU64(x) ==
    IF x < 0 THEN [ok |-> FALSE, v |-> -1] ELSE [ok |-> TRUE, v |-> x]

\* what a handler part hands back: the call record, where the handler stands
\* ("exec" = suspended in exec, otherwise returned) and the caller's points
Ret(c, status, points) == [call |-> c, status |-> status, points |-> points]

\* the handler returns the error `kind`, raised by `step`
Fail(c, step, kind, points) == Ret([c EXCEPT !.raised = step], kind, points)

\* (variant) call_module charging the caller's whole budget for a failed
\* compilation
M_call_module_entry_charge(c, points) ==
    LET coins == TryIntoU64(c.raw_coins) IN
    IF ~coins.ok THEN Fail(c, "try_into", "Error", points)
    ELSE
    LET c1 == [c EXCEPT !.coins = coins.v, !.host_arg = c.address,
                        !.trace = Append(@, "init_call")]
        bc == init_call(c.address, coins.v, c.fail) IN
    IF ~bc.ok THEN Fail(c1, "init_call", "Error", points)
    ELSE
    LET c2 == [c1 EXCEPT !.bytecode = bc.v]
        g  == IF gas_calibration
              THEN [ok |-> TRUE, v |-> U64_MAX]
              ELSE get_remaining_points(points, c.fail)
        c3 == IF gas_calibration THEN c2
              ELSE [c2 EXCEPT !.trace = Append(@, "get_remaining_points")] IN
    IF ~g.ok THEN Fail(c3, "get_remaining_points", "Error", points)
    ELSE
    LET c4 == [c3 EXCEPT !.remaining_gas = g.v, !.trace = Append(@, "Module::new")] IN
    IF ~Module_new(c4.bytecode).ok THEN Fail(c4, "Module::new", "CompileError", 0)
    ELSE Ret([c4 EXCEPT !.trace = Append(@, "exec")], "exec", points)

\* (variant) call_module reading the caller's budget before it initiates the
\* call
M_call_module_entry_read_first(c, points) ==
    LET coins == TryIntoU64(c.raw_coins) IN
    IF ~coins.ok THEN Fail(c, "try_into", "Error", points)
    ELSE
    LET g  == IF gas_calibration
              THEN [ok |-> TRUE, v |-> U64_MAX]
              ELSE get_remaining_points(points, c.fail)
        c1 == IF gas_calibration THEN c
              ELSE [c EXCEPT !.trace = Append(@, "get_remaining_points")] IN
    IF ~g.ok THEN Fail(c1, "get_remaining_points", "Error", points)
    ELSE
    LET c2 == [c1 EXCEPT !.remaining_gas = g.v, !.coins = coins.v,
                         !.host_arg = c.address, !.trace = Append(@, "init_call")]
        bc == init_call(c.address, coins.v, c.fail) IN
    IF ~bc.ok THEN Fail(c2, "init_call", "Error", points)
    ELSE
    LET c4 == [c2 EXCEPT !.bytecode = bc.v, !.trace = Append(@, "Module::new")] IN
    IF ~Module_new(c4.bytecode).ok THEN Fail(c4, "Module::new", "CompileError", points)
    ELSE Ret([c4 EXCEPT !.trace = Append(@, "exec")], "exec", points)

\* call_module up to the call of exec
call_module_entry(c, points) ==
    LET coins == TryIntoU64(c.raw_coins) IN
    IF ~coins.ok THEN Fail(c, "try_into", "Error", points)
    ELSE
    LET c1 == [c EXCEPT !.coins = coins.v, !.host_arg = c.address,
                        !.trace = Append(@, "init_call")]
        bc == init_call(c.address, coins.v, c.fail) IN
    IF ~bc.ok THEN Fail(c1, "init_call", ABIError_from("anyhow::Error"), points)
    ELSE
    LET c2 == [c1 EXCEPT !.bytecode = bc.v]
        g  == IF gas_calibration
              THEN [ok |-> TRUE, v |-> U64_MAX]
              ELSE get_remaining_points(points, c.fail)
        c3 == IF gas_calibration THEN c2
              ELSE [c2 EXCEPT !.trace = Append(@, "get_remaining_points")] IN
    IF ~g.ok THEN Fail(c3, "get_remaining_points", "Error", points)
    ELSE
    LET c4 == [c3 EXCEPT !.remaining_gas = g.v, !.trace = Append(@, "Module::new")] IN
    IF ~Module_new(c4.bytecode).ok THEN Fail(c4, "Module::new", ABIError_from("wasmer::CompileError"), points)
    ELSE Ret([c4 EXCEPT !.trace = Append(@, "exec")], "exec", points)

\* (variant) call_module notifying finish_call before the reconciliation write
M_call_module_exit_finish_first(c, points, r, fail) ==
    IF ~r.ok THEN Fail(c, "exec", "RuntimeError", points)
    ELSE
    LET c1 == [c EXCEPT !.response = r.v, !.trace = Append(@, "finish_call")] IN
    IF ~finish_call(fail).ok THEN Fail(c1, "finish_call", "Error", points)
    ELSE
    LET s  == IF gas_calibration
              THEN [ok |-> TRUE, points |-> points]
              ELSE set_remaining_points(points, r.v.remaining_gas, fail)
        c2 == IF gas_calibration THEN c1
              ELSE [c1 EXCEPT !.trace = Append(@, "set_remaining_points")] IN
    IF ~s.ok THEN Fail(c2, "set_remaining_points", "Error", s.points)
    ELSE Ret([c2 EXCEPT !.returned = r.v], "Ok", s.points)

\* (variant) call_module writing back the budget it read before the call
M_call_module_exit_stale_budget(c, points, r, fail) ==
    IF ~r.ok THEN Fail(c, "exec", "RuntimeError", points)
    ELSE
    LET c1 == [c EXCEPT !.response = r.v]
        s  == IF gas_calibration
              THEN [ok |-> TRUE, points |-> points]
              ELSE set_remaining_points(points, c.remaining_gas, fail)
        c2 == IF gas_calibration THEN c1
              ELSE [c1 EXCEPT !.trace = Append(@, "set_remaining_points")] IN
    IF ~s.ok THEN Fail(c2, "set_remaining_points", "Error", s.points)
    ELSE
    LET c3 == [c2 EXCEPT !.trace = Append(@, "finish_call")] IN
    IF ~finish_call(fail).ok THEN Fail(c3, "finish_call", "Error", s.points)
    ELSE Ret([c3 EXCEPT !.returned = r.v], "Ok", s.points)

\* (variant) call_module closing the host's call when the callee trapped
M_call_module_exit_finish_on_trap(c, points, r, fail) ==
    IF ~r.ok THEN Fail([c EXCEPT !.trace = Append(@, "finish_call")],
                       "exec", "RuntimeError", points)
    ELSE
    LET c1 == [c EXCEPT !.response = r.v]
        s  == IF gas_calibration
              THEN [ok |-> TRUE, points |-> points]
              ELSE set_remaining_points(points, r.v.remaining_gas, fail)
        c2 == IF gas_calibration THEN c1
              ELSE [c1 EXCEPT !.trace = Append(@, "set_remaining_points")] IN
    IF ~s.ok THEN Fail(c2, "set_remaining_points", "Error", s.points)
    ELSE
    LET c3 == [c2 EXCEPT !.trace = Append(@, "finish_call")] IN
    IF ~finish_call(fail).ok THEN Fail(c3, "finish_call", "Error", s.points)
    ELSE Ret([c3 EXCEPT !.returned = r.v], "Ok", s.points)

\* call_module from the return of exec (r = exec's result) to its own return
call_module_exit(c, points, r, fail) ==
    IF ~r.ok THEN Fail(c, "exec", ABIError_from("wasmer::RuntimeError"), points)
    ELSE
    LET c1 == [c EXCEPT !.response = r.v]
        s  == IF gas_calibration
              THEN [ok |-> TRUE, points |-> points]
              ELSE set_remaining_points(points, r.v.remaining_gas, fail)
        c2 == IF gas_calibration THEN c1
              ELSE [c1 EXCEPT !.trace = Append(@, "set_remaining_points")] IN
    IF ~s.ok THEN Fail(c2, "set_remaining_points", "Error", s.points)
    ELSE
    LET c3 == [c2 EXCEPT !.trace = Append(@, "finish_call")] IN
    IF ~finish_call(fail).ok THEN Fail(c3, "finish_call", ABIError_from("anyhow::Error"), s.points)
    ELSE Ret([c3 EXCEPT !.returned = r.v], "Ok", s.points)

\* local_call up to the call of exec
local_call_entry(c, points) ==
    LET g  == IF gas_calibration
              THEN [ok |-> TRUE, v |-> U64_MAX]
              ELSE get_remaining_points(points, c.fail)
        c1 == IF gas_calibration THEN c
              ELSE [c EXCEPT !.trace = Append(@, "get_remaining_points")] IN
    IF ~g.ok THEN Fail(c1, "get_remaining_points", "Error", points)
    ELSE
    LET c2 == [c1 EXCEPT !.remaining_gas = g.v, !.trace = Append(@, "Module::new")] IN
    IF ~Module_new(c2.bytecode).ok THEN Fail(c2, "Module::new", ABIError_from("wasmer::CompileError"), points)
    ELSE Ret([c2 EXCEPT !.trace = Append(@, "exec")], "exec", points)

\* (variant) local_call writing the callee's exhausted budget back on a trap
M_local_call_exit_trap_write(c, points, r, fail) ==
    IF ~r.ok THEN Fail([c EXCEPT !.trace = Append(@, "set_remaining_points")],
                       "exec", "RuntimeError", 0)
    ELSE
    LET c1 == [c EXCEPT !.response = r.v]
        s  == IF gas_calibration
              THEN [ok |-> TRUE, points |-> points]
              ELSE set_remaining_points(points, r.v.remaining_gas, fail)
        c2 == IF gas_calibration THEN c1
              ELSE [c1 EXCEPT !.trace = Append(@, "set_remaining_points")] IN
    IF ~s.ok THEN Fail(c2, "set_remaining_points", "Error", s.points)
    ELSE Ret([c2 EXCEPT !.returned = r.v], "Ok", s.points)

\* (variant) local_call ending like call_module, finish_call included
M_local_call_exit_finish(c, points, r, fail) == call_module_exit(c, points, r, fail)

\* local_call from the return of exec to its own return
local_call_exit(c, points, r, fail) ==
    IF ~r.ok THEN Fail(c, "exec", ABIError_from("wasmer::RuntimeError"), points)
    ELSE
    LET c1 == [c EXCEPT !.response = r.v]
        s  == IF gas_calibration
              THEN [ok |-> TRUE, points |-> points]
              ELSE set_remaining_points(points, r.v.remaining_gas, fail)
        c2 == IF gas_calibration THEN c1
              ELSE [c1 EXCEPT !.trace = Append(@, "set_remaining_points")] IN
    IF ~s.ok THEN Fail(c2, "set_remaining_points", "Error", s.points)
    ELSE Ret([c2 EXCEPT !.returned = r.v], "Ok", s.points)

\* (variant) create_sc compiling the bytecode before it registers it
M_create_sc_compile(c, points, id) ==
    LET c0 == [c EXCEPT !.trace = Append(@, "Module::new")] IN
    IF ~Module_new(c.bytecode).ok THEN Fail(c0, "Module::new", "CompileError", points)
    ELSE
    LET h  == create_module(c.bytecode, id)
        c1 == [c0 EXCEPT !.trace = Append(@, "create_module"),
                         !.host_arg = c.bytecode, !.host_value = h.v] IN
    IF ~h.ok THEN Fail(c1, "create_module", "Error", points)
    ELSE Ret([c1 EXCEPT !.value = h.v], "Ok", points)

\* (variant) create_sc charging one point of the caller's budget
M_create_sc_charge(c, points, id) ==
    LET h  == create_module(c.bytecode, id)
        c1 == [c EXCEPT !.trace = Append(@, "create_module"),
                        !.host_arg = c.bytecode, !.host_value = h.v]
        p  == IF points > 0 THEN points - 1 ELSE points IN
    IF ~h.ok THEN Fail(c1, "create_module", "Error", p)
    ELSE Ret([c1 EXCEPT !.value = h.v], "Ok", p)

\* create_sc, whole (id = the host's answer)
create_sc(c, points, id) ==
    LET h  == create_module(c.bytecode, id)
        c1 == [c EXCEPT !.trace = Append(@, "create_module"),
                        !.host_arg = c.bytecode, !.host_value = h.v] IN
    IF ~h.ok THEN Fail(c1, "create_module", ABIError_from("anyhow::Error"), points)
    ELSE Ret([c1 EXCEPT !.value = h.v], "Ok", points)

-----------------------------------------------------------------------------
(* The state machine *)

Top == Len(frames)

\* The dispatch `c` comes right after `last`, which returned an error to the
\* same frame without reaching exec, with the same arguments and the same
\* answers of the collaborators.
Repeats(c) ==
    /\ last.op = c.op
    /\ last.status \notin {"Ok", "pending"}
    /\ \A i \in DOMAIN last.trace : last.trace[i] # "exec"
    /\ last.address = c.address /\ last.arg = c.arg
    /\ last.raw_coins = c.raw_coins /\ last.fail = c.fail

\* The record of a dispatch the moment it starts.
Start(op, address, arg, raw_coins, fail) ==
    NewCall(op, address, arg, raw_coins, fail, frames[Top].points)

\* The record of a returned dispatch.
Returned(res, ch) ==
    [res.call EXCEPT !.status = res.status, !.post = res.points,
                     !.consumed = ch.spent, !.clean = ch.clean]

Init ==
    /\ gas_calibration \in BOOLEAN
    /\ \E g \in 0..MaxGas : frames = <<Frame(g)>>
    /\ calls = <<>>
    /\ chain = NoChain
    /\ last = NoCall

\* The handler returned without reaching exec: the frame goes on.
Return(res) ==
    /\ frames' = [frames EXCEPT ![Top].points = res.points]
    /\ calls' = calls
    /\ chain' = Audit(chain, Top, res.status = "Ok" \/ res.call.op = "create_sc", 0)
    /\ last' = [Returned(res, NoChain) EXCEPT
                   !.first = IF Repeats(res.call)
                             THEN [seen |-> TRUE, status |-> last.status,
                                   pre |-> IF last.first.seen THEN last.first.pre
                                           ELSE last.pre]
                             ELSE NoFirst]

\* The handler called exec: a callee instance starts.  exec is handed the
\* interface, the engine, the module, the function, the parameters and the gas
\* costs; the budget read into remaining_gas is not among its arguments, so
\* the limit the callee runs under is whatever exec takes from the engine:
\* any budget, whatever the caller has left.
Enter(res) ==
    /\ Top < MaxDepth
    /\ \E limit \in 0..MaxGas :
          frames' = Append([frames EXCEPT ![Top].points = res.points], Frame(limit))
    /\ calls' = Append(calls, res.call)
    /\ chain' = chain
    /\ last' = NoCall

\* The running frame calls the `call` ABI.
CallModule(address, raw_coins, fail) ==
    LET res == call_module_entry(Start("call_module", address, NoCode, raw_coins, fail),
                                 frames[Top].points)
    IN /\ IF res.status = "exec" THEN Enter(res) ELSE Return(res)
       /\ UNCHANGED gas_calibration

\* The running frame calls the `local_call` ABI.
LocalCall(bytecode, fail) ==
    LET res == local_call_entry(Start("local_call", NoAddr, bytecode, 0, fail),
                                frames[Top].points)
    IN /\ IF res.status = "exec" THEN Enter(res) ELSE Return(res)
       /\ UNCHANGED gas_calibration

\* The running frame calls the `create_sc` ABI.
CreateSc(bytecode, id) ==
    LET fail == IF id = NoAddr THEN "create_module" ELSE "none"
        res  == create_sc(Start("create_sc", NoAddr, bytecode, 0, fail),
                          frames[Top].points, id)
    IN /\ Return(res)
       /\ UNCHANGED gas_calibration

\* The running frame executes one metered instruction.
GuestStep ==
    /\ frames[Top].points > 0
    /\ chain.spent < MaxSpent
    /\ frames' = [frames EXCEPT ![Top].points = @ - 1]
    /\ chain' = Audit(chain, Top, TRUE, 1)
    /\ last' = NoCall
    /\ UNCHANGED <<gas_calibration, calls>>

\* exec is over (r = its result): the suspended handler of the caller resumes.
Resume(r, fail) ==
    LET caller == Top - 1
        c      == calls[caller]
        res    == IF c.op = "call_module"
                  THEN call_module_exit(c, frames[caller].points, r, fail)
                  ELSE local_call_exit(c, frames[caller].points, r, fail)
    IN /\ Top > 1
       /\ frames' = [SubSeq(frames, 1, caller) EXCEPT ![caller].points = res.points]
       /\ calls' = SubSeq(calls, 1, caller - 1)
       /\ chain' = Audit(chain, caller, res.status = "Ok", 0)
       /\ last' = Returned(res, IF caller = 1 THEN chain ELSE NoChain)
       /\ UNCHANGED gas_calibration

\* The callee's export returns: exec yields the payload and the callee's
\* remaining points.
ExecReturn(payload, fail) ==
    Resume([ok |-> TRUE,
            v  |-> [ret |-> payload, remaining_gas |-> frames[Top].points]], fail)

\* The callee traps (fault or exhausted budget): exec yields an error.
ExecTrap ==
    Resume([ok |-> FALSE, v |-> NoResponse], "none")

\* A collaborator answers only when asked: inputs that differ in the answer
\* of a primitive the dispatch never reaches are one input.
Asked(raw_coins, fail) ==
    \/ fail = "none"
    \/ fail \in {"init_call", "finish_call"} /\ raw_coins >= 0
    \/ fail \in {"get_remaining_points", "set_remaining_points"}
          /\ raw_coins >= 0 /\ ~gas_calibration

Next ==
    \/ \E a \in Addresses, rc \in RawCoins, f \in EntryFailures :
          Asked(rc, f) /\ CallModule(a, rc, f)
    \/ \E b \in Bytecodes, f \in EntryFailures \ {"init_call"} :
          Asked(0, f) /\ LocalCall(b, f)
    \/ \E b \in Bytecodes, id \in Addresses \cup {NoAddr} : CreateSc(b, id)
    \/ GuestStep
    \/ \E p \in Payloads, f \in ExitFailures : Asked(0, f) /\ ExecReturn(p, f)
    \/ ExecTrap

Spec == Init /\ [][Next]_vars

\* The guest as the sandbox meters it: the instruction that issued a dispatch
\* is charged before the frame does anything else, so a frame that has just
\* been returned to either pays for it or, out of budget, traps.
Charged == last = NoCall

NextMetered ==
    \/ \E a \in Addresses, rc \in RawCoins, f \in EntryFailures :
          Charged /\ Asked(rc, f) /\ CallModule(a, rc, f)
    \/ \E b \in Bytecodes, f \in EntryFailures \ {"init_call"} :
          Charged /\ Asked(0, f) /\ LocalCall(b, f)
    \/ \E b \in Bytecodes, id \in Addresses \cup {NoAddr} :
          Charged /\ CreateSc(b, id)
    \/ GuestStep
    \/ \E p \in Payloads, f \in ExitFailures :
          Charged /\ Asked(0, f) /\ ExecReturn(p, f)
    \/ ExecTrap

\* Execution is synchronous: the invocation goes on as long as the running
\* frame has something to execute.
SpecLive == Init /\ [][NextMetered]_vars /\ WF_vars(NextMetered)

-----------------------------------------------------------------------------
(* Properties *)

IsCall(c) == c.op \in {"call_module", "local_call"}
Invoked(c, step) == \E i \in DOMAIN c.trace : c.trace[i] = step
Times(c, step) == Cardinality({i \in DOMAIN c.trace : c.trace[i] = step})
\* the Budget Ledger of the frame `last` returned to
Ledger == frames[Top].points

\* C1: in non-calibration mode, after a successful call_module the caller's
\* remaining budget equals the budget it read before the call (the budget
\* granted to the callee) minus the budget the callee's chain consumed.
C1_RemainingIsGrantedMinusConsumed ==
    (/\ last.op = "call_module" /\ last.status = "Ok"
     /\ ~gas_calibration /\ Top = 1 /\ last.clean)
    => Ledger = last.remaining_gas - last.consumed

\* C2: a negative amount makes call_module fail with ABIError::Error before
\* any primitive is invoked, the Budget Ledger unchanged; no dispatch with a
\* negative amount ever reaches exec.
C2_NegativeAmountRejected ==
    /\ (last.op = "call_module" /\ last.raw_coins < 0)
       => /\ last.status = "Error"
          /\ last.trace = <<>>
          /\ last.post = last.pre /\ Ledger = last.pre
    /\ \A i \in DOMAIN calls : calls[i].raw_coins >= 0

C2_Witness ==
    last.op = "call_module" /\ last.raw_coins = I64_MIN /\ last.status = "Error"

\* C3: in non-calibration mode the limit under which exec starts the callee
\* is the remaining budget the handler read from the caller's ledger.
C3_GrantedIsBudgetRead ==
    [][(Len(frames') = Len(frames) + 1 /\ ~gas_calibration)
       => frames'[Len(frames')].points = calls'[Len(calls')].remaining_gas]_vars

\* C4: when init_call, the budget read, the compilation or the execution
\* fails, call_module / local_call return an error, set_remaining_points is
\* not invoked and the Budget Ledger holds its pre-call value.
C4_NoWriteBeforeReconciliation ==
    (IsCall(last)
     /\ last.raised \in {"init_call", "get_remaining_points", "Module::new", "exec"})
    => /\ last.status \in ABIErrors
       /\ ~Invoked(last, "set_remaining_points")
       /\ last.post = last.pre /\ Ledger = last.pre

C4_Witness ==
    /\ last.op = "local_call" /\ last.raised = "exec"
    /\ last.status = "RuntimeError" /\ last.pre > 0

\* C5 (as stated): whenever call_module returns an error, the Budget Ledger
\* holds the remaining budget it held before the call.
C5_LedgerUnchangedOnAnyError ==
    (last.op = "call_module" /\ last.status \in ABIErrors) => Ledger = last.pre

\* C5 (amended): when call_module returns an error, the Budget Ledger holds
\* its pre-call value, unless the error was raised by finish_call in
\* non-calibration mode: then the reconciliation write has been committed and
\* the ledger holds the response's remaining_gas.
C5_LedgerOnError ==
    (last.op = "call_module" /\ last.status \in ABIErrors)
    => Ledger = IF last.raised = "finish_call" /\ ~gas_calibration
                THEN last.response.remaining_gas
                ELSE last.pre

C5_Witness ==
    /\ last.op = "call_module" /\ last.status = "Error"
    /\ last.raised = "finish_call" /\ ~gas_calibration
    /\ Ledger # last.pre

\* C6: no local_call, returned or suspended in exec, has invoked init_call,
\* finish_call or create_module.
C6_LocalCallNoHostCall ==
    \A c \in {last} \cup {calls[i] : i \in DOMAIN calls} :
        c.op = "local_call"
        => /\ ~Invoked(c, "init_call")
           /\ ~Invoked(c, "finish_call")
           /\ ~Invoked(c, "create_module")
           /\ c.host_arg = NoCode /\ c.host_value = NoAddr

C6_Witness ==
    /\ last.op = "local_call" /\ last.status = "Ok"
    /\ Invoked(last, "exec") /\ last.returned # NoResponse

\* C7: create_sc invokes create_module(B) once and nothing else, returns the
\* identifier the host answered, or ABIError::Error when the host failed, and
\* neither reads nor writes the Budget Ledger.
C7_CreateScDelegates ==
    last.op = "create_sc"
    => /\ last.trace = <<"create_module">>
       /\ last.host_arg = last.arg
       /\ IF last.host_value = NoAddr
          THEN last.status = "Error" /\ last.value = NoAddr
          ELSE last.status = "Ok" /\ last.value = last.host_value
       /\ last.remaining_gas = -1
       /\ last.post = last.pre /\ Ledger = last.pre

C7_Witness ==
    /\ last.op = "create_sc" /\ last.arg = "Bad"
    /\ last.status = "Ok" /\ last.value = "A2"

\* C8: a dispatch that fails before exec and is repeated at once with the
\* same arguments and the same answers of the collaborators fails with the
\* same error kind, and the Budget Ledger after the repetition is the one
\* before the first attempt.
C8_FailureRepeats ==
    last.first.seen
    => /\ last.status = last.first.status
       /\ last.post = last.first.pre /\ Ledger = last.first.pre

C8_Witness ==
    /\ last.first.seen /\ last.op = "call_module"
    /\ last.status = "CompileError" /\ last.pre > 0

\* C9: in non-calibration mode, once the outermost call of a chain of
\* successful nested calls has returned, the top-level frame's remaining
\* budget is its budget before the call minus the budget consumed by all the
\* frames of the chain.
C9_ChainChargedOnce ==
    (/\ IsCall(last) /\ last.status = "Ok"
     /\ Top = 1 /\ last.clean /\ ~gas_calibration)
    => frames[1].points = last.pre - last.consumed

\* The step writes frame i's budget as the reconciliation of a returning call.
ReconciliationWrite(i) ==
    /\ Len(frames) = i + 1 /\ Len(frames') = i
    /\ IsCall(last') /\ ~gas_calibration
    /\ Times(last', "set_remaining_points") = 1
    /\ frames'[i].points = last'.response.remaining_gas

\* The step is frame i executing a metered instruction.
MeteredInstruction(i) ==
    /\ Len(frames) = i /\ Len(frames') = i
    /\ last' = NoCall
    /\ frames'[i].points < frames[i].points

\* C10: a frame's remaining budget changes only by the reconciliation write
\* of a call that returns to it, or decreases by the frame's own execution.
C10_OnlyReconciliationWrites ==
    [][\A i \in DOMAIN frames :
          (i \in DOMAIN frames' /\ frames'[i].points # frames[i].points)
          => (ReconciliationWrite(i) \/ MeteredInstruction(i))]_vars

C10_Witness ==
    /\ IsCall(last) /\ last.status = "Ok"
    /\ Invoked(last, "set_remaining_points") /\ Ledger # last.pre

\* C11: a successful call_module in non-calibration mode has invoked, once
\* each and in this order, init_call, the budget read, the compilation, the
\* execution, the reconciliation write and finish_call, and then returned the
\* response.
C11_SuccessfulCallOrder ==
    (last.op = "call_module" /\ last.status = "Ok" /\ ~gas_calibration)
    => /\ last.trace = <<"init_call", "get_remaining_points", "Module::new",
                         "exec", "set_remaining_points", "finish_call">>
       /\ last.returned # NoResponse

C11_Witness ==
    /\ last.op = "call_module" /\ last.status = "Ok" /\ ~gas_calibration
    /\ Invoked(last, "finish_call") /\ last.returned.ret = "r2"

\* C12: when the host fails init_call, call_module returns that error having
\* invoked nothing else: no budget read, no compilation, no execution, no
\* budget write, no finish_call; such a dispatch is never suspended in exec.
C12_InitCallFailureAborts ==
    /\ (last.op = "call_module" /\ last.raw_coins >= 0 /\ last.fail = "init_call")
       => /\ last.status = "Error"
          /\ last.trace = <<"init_call">>
          /\ last.remaining_gas = -1 /\ last.response = NoResponse
          /\ last.post = last.pre /\ Ledger = last.pre
    /\ \A i \in DOMAIN calls : calls[i].fail # "init_call"

C12_Witness ==
    /\ last.op = "call_module" /\ last.fail = "init_call"
    /\ last.status = "Error" /\ last.raised = "init_call" /\ last.pre > 0

C14_CalibrationUnboundedNoLedger ==
    [][gas_calibration =>
        /\ Len(frames') = Len(frames) + 1
           => /\ calls'[Len(calls')].remaining_gas = U64_MAX
              /\ frames'[Len(frames')].points = U64_MAX
        /\ IsCall(last')
           => /\ ~Invoked(last', "get_remaining_points")
              /\ ~Invoked(last', "set_remaining_points")
              /\ last'.post = last'.pre
              /\ frames'[Len(frames')].points = last'.pre]_vars

\* The primitives of a dispatch other than the two notifications of the host.
Steps4To7(trace) ==
    SelectSeq(trace, LAMBDA step : step \notin {"init_call", "finish_call"})

\* The outcome of call_module(a, coins) for a caller in the situation of the
\* returned local_call `l`: same budget, same answers of the budget accessors
\* and same result of exec, the host succeeding in init_call and finish_call.
SameCallModule(l, a, coins) ==
    LET f == IF l.raised \in {"get_remaining_points", "set_remaining_points"}
             THEN l.raised ELSE "none"
        r == IF l.raised = "exec"
             THEN [ok |-> FALSE, v |-> NoResponse]
             ELSE [ok |-> TRUE, v |-> l.response]
        e == call_module_entry(NewCall("call_module", a, NoCode, coins, f, l.pre), l.pre)
    IN IF e.status = "exec" THEN call_module_exit(e.call, e.points, r, f) ELSE e

\* C15: local_call on a bytecode is call_module on an address that resolves
\* to that bytecode, without init_call and finish_call: from the same budget
\* both return the same response or the same kind of error, leave the same
\* remaining budget, and invoke the same other primitives in the same order.
C15_LocalCallIsCallModuleSteps4To7 ==
    last.op = "local_call" =>
        \A a \in Addresses, coins \in {0, I64_MAX} :
            Stored[a] = last.arg =>
                LET cm == SameCallModule(last, a, coins) IN
                /\ cm.status = last.status
                /\ cm.points = last.post
                /\ cm.call.returned = last.returned
                /\ cm.call.response = last.response
                /\ cm.call.remaining_gas = last.remaining_gas
                /\ cm.call.raised = last.raised
                /\ Steps4To7(cm.call.trace) = last.trace
                /\ Steps4To7(last.trace) = last.trace

C15_Witness ==
    /\ last.op = "local_call" /\ last.status = "Ok" /\ ~gas_calibration
    /\ \E a \in Addresses :
          /\ Stored[a] = last.arg
          /\ Invoked(SameCallModule(last, a, 0).call, "finish_call")
          /\ SameCallModule(last, a, 0).points = last.post /\ last.post # last.pre

\* C16: in non-calibration mode, from a finite budget, no frame runs for
\* ever: every nested call ends, by returning or by trapping, and the
\* invocation executes only finitely many metered instructions.
C16_EveryCallTerminates ==
    ~gas_calibration =>
        /\ [](Top > 1 => <>(Top = 1))
        /\ <>[][~(\E i \in DOMAIN frames : MeteredInstruction(i))]_vars

\* The call_module dispatches in the state: the returned one and those
\* suspended in exec.
CallModules ==
    {c \in {last} \cup {calls[i] : i \in DOMAIN calls} : c.op = "call_module"}

\* C17: call_module accepts every non-negative i64 amount, 0 and i64::MAX
\* included, and hands init_call exactly that amount with the address it was
\* given; a negative amount, and nothing else, is rejected at the conversion,
\* as a returned Error.
C17_AmountPassedUnchanged ==
    \A c \in CallModules :
        /\ c.raw_coins >= 0
           => /\ c.raised # "try_into"
              /\ Times(c, "init_call") = 1 /\ c.trace[1] = "init_call"
              /\ c.coins = c.raw_coins
              /\ c.host_arg = c.address
        /\ c.raw_coins < 0
           => /\ c.raised = "try_into" /\ c.status = "Error"
              /\ c.trace = <<>> /\ c.coins = -1

C17_Witness ==
    /\ \E c \in CallModules : c.raw_coins = I64_MAX /\ c.coins = I64_MAX
                              /\ c.host_arg = "A2"
    /\ \E c \in CallModules : c.raw_coins = 0 /\ c.coins = 0 /\ c.host_arg = "A1"
                              /\ Invoked(c, "init_call")

\* C18: a call_module or local_call that succeeds returns the response exec
\* produced, unmodified (its payload, and as remaining_gas the points the
\* callee had left), and outside calibration mode the budget it wrote into
\* the caller's Ledger is the remaining_gas of that same response.
C18_ReturnsExecResponse ==
    [][(Len(frames') = Len(frames) - 1 /\ last'.status = "Ok")
       => /\ IsCall(last')
          /\ last'.returned = last'.response
          /\ last'.returned.ret \in Payloads
          /\ last'.returned.remaining_gas = frames[Len(frames)].points
          /\ ~gas_calibration
             => /\ frames'[Len(frames')].points = last'.returned.remaining_gas
                /\ last'.post = last'.returned.remaining_gas]_vars

C18_Witness ==
    /\ last.op = "call_module" /\ last.status = "Ok" /\ ~gas_calibration
    /\ last.returned.ret = "r1"
    /\ Ledger = last.returned.remaining_gas /\ Ledger # last.remaining_gas

\* The successful init_call invocations of a dispatch (0 or 1).
InitCalls(c) ==
    IF Invoked(c, "init_call") /\ c.raised # "init_call"
    THEN Times(c, "init_call") ELSE 0

\* The steps of call_module between init_call and finish_call.
AfterInitCall == {"get_remaining_points", "Module::new", "exec", "set_remaining_points"}

\* C19: a call_module dispatch notifies finish_call at most once, and does so
\* exactly when init_call, the budget read, the compilation, the execution and
\* the reconciliation write have all succeeded; when one of the steps after a
\* successful init_call fails, the error is returned with no finish_call and
\* no other call of the host, so the finish_call notifications of a dispatch
\* never exceed its successful init_call invocations and are fewer after such
\* a failure.
C19_FinishCallOnlyAfterSuccess ==
    \A c \in CallModules :
        /\ Times(c, "finish_call") <= 1
        /\ Times(c, "finish_call") <= InitCalls(c)
        /\ c.status = "pending"
           => Times(c, "finish_call") = 0 /\ InitCalls(c) = 1
        /\ c.status # "pending"
           => (Invoked(c, "finish_call") <=> c.raised \in {"none", "finish_call"})
        /\ c.raised \in AfterInitCall
           => /\ c.status \in ABIErrors
              /\ InitCalls(c) = 1
              /\ Times(c, "finish_call") = 0
              /\ Times(c, "create_module") = 0
              /\ c.trace[Len(c.trace)] = c.raised
        /\ Invoked(c, "finish_call")
           => /\ c.trace[Len(c.trace)] = "finish_call"
              /\ \A step \in {"get_remaining_points", "set_remaining_points"} :
                    Times(c, step) = IF gas_calibration THEN 0 ELSE 1
              /\ Times(c, "Module::new") = 1 /\ Times(c, "exec") = 1
              /\ c.response # NoResponse

C19_Witness ==
    /\ last.op = "call_module" /\ last.raised = "exec"
    /\ InitCalls(last) = 1 /\ Times(last, "finish_call") = 0

====
